---- MODULE Spec2Model ----
(***************************************************************************)
(* Numeral engine of nihongo-labs (src/src/lib/japanese-numbers):          *)
(* convertToJapanese, roundToRealistic / generateRandomNumber and          *)
(* isAnswerCorrect / isRomajiMatch, driven by a practice round that draws  *)
(* a number, converts it and checks an answer.                             *)
(*                                                                         *)
(* Representation.  A JavaScript number holding an integer of up to 16     *)
(* decimal digits is the record [hi, lo] with value hi * 10^8 + lo and     *)
(* 0 <= lo < 10^8 (TLC integers are 32 bits wide).  A JavaScript string is *)
(* the sequence of its characters: romaji as one-letter strings, each      *)
(* kanji and kana as one token ("k100" is the glyph for 100, "hya" the     *)
(* small kana ya, "htsu" the small tsu), the unknown marker as "?".        *)
(***************************************************************************)
EXTENDS Integers, Sequences, FiniteSets, TLC

\* ------------------------------------------------------------- numbers

Limb == 10^8

\* the number hi * 10^8 + lo, for any integers hi and lo
Mk(hi, lo) == [hi |-> hi + (lo \div Limb), lo |-> lo % Limb]

\* a (small) integer as a number
I(n) == Mk(0, n)

Lt(a, b) == a.hi < b.hi \/ (a.hi = b.hi /\ a.lo < b.lo)
Le(a, b) == a = b \/ Lt(a, b)
Gt(a, b) == Lt(b, a)
Ge(a, b) == Le(b, a)

\* 10^k as a number
P10(k) == IF k < 8 THEN Mk(0, 10^k) ELSE Mk(10^(k - 8), 0)

\* Math.floor(n / 10^k)
FloorDiv(n, k) ==
  IF k >= 8 THEN Mk(0, n.hi \div 10^(k - 8))
  ELSE Mk(n.hi \div 10^k, (n.hi % 10^k) * 10^(8 - k) + (n.lo \div 10^k))

\* n % 10^k, for n >= 0 (the code takes remainders of non-negative numbers only)
Mod(n, k) ==
  IF k >= 8 THEN [hi |-> n.hi % 10^(k - 8), lo |-> n.lo]
  ELSE [hi |-> 0, lo |-> n.lo % 10^k]

\* a + d and a - b, for numbers a, b and a small integer d
Plus(a, d) == Mk(a.hi, a.lo + d)
Minus(a, b) == Mk(a.hi - b.hi, a.lo - b.lo)

\* 999999999999999, the largest number the converter accepts
MaxNumber == Mk(9999999, 99999999)

\* --------------------------------------------------------- the tables

JN(number, kanji, hiragana, romaji) ==
  [number |-> number, kanji |-> kanji, hiragana |-> hiragana, romaji |-> romaji]

Form(kanji, hiragana, romaji) ==
  [kanji |-> kanji, hiragana |-> hiragana, romaji |-> romaji]

\* Unknown with a field left out of the marker
UnknownPartial(num) == JN(num, <<"?">>, <<"?">>, <<>>)

\* the triple returned for a number that cannot be converted
Unknown(num) == JN(num, <<"?">>, <<"?">>, <<"?">>)

basicNumbersInitializer ==
  0 :> JN(I(0), <<"k0">>,
         <<"hRe", "hI">>,
         <<"r", "e", "i">>) @@
  1 :> JN(I(1), <<"k1">>,
         <<"hI", "hChi">>,
         <<"i", "c", "h", "i">>) @@
  2 :> JN(I(2), <<"k2">>,
         <<"hNi">>,
         <<"n", "i">>) @@
  3 :> JN(I(3), <<"k3">>,
         <<"hSa", "hN">>,
         <<"s", "a", "n">>) @@
  4 :> JN(I(4), <<"k4">>,
         <<"hYo", "hN">>,
         <<"y", "o", "n">>) @@
  5 :> JN(I(5), <<"k5">>,
         <<"hGo">>,
         <<"g", "o">>) @@
  6 :> JN(I(6), <<"k6">>,
         <<"hRo", "hKu">>,
         <<"r", "o", "k", "u">>) @@
  7 :> JN(I(7), <<"k7">>,
         <<"hNa", "hNa">>,
         <<"n", "a", "n", "a">>) @@
  8 :> JN(I(8), <<"k8">>,
         <<"hHa", "hChi">>,
         <<"h", "a", "c", "h", "i">>) @@
  9 :> JN(I(9), <<"k9">>,
         <<"hKi", "hyu", "hU">>,
         <<"k", "y", "u", "u">>) @@
  10 :> JN(I(10), <<"k10">>,
         <<"hJi", "hyu", "hU">>,
         <<"j", "u", "u">>) @@
  11 :> JN(I(11), <<"k10", "k1">>,
         <<"hJi", "hyu", "hU", "hI", "hChi">>,
         <<"j", "u", "u", "i", "c", "h", "i">>) @@
  12 :> JN(I(12), <<"k10", "k2">>,
         <<"hJi", "hyu", "hU", "hNi">>,
         <<"j", "u", "u", "n", "i">>) @@
  13 :> JN(I(13), <<"k10", "k3">>,
         <<"hJi", "hyu", "hU", "hSa", "hN">>,
         <<"j", "u", "u", "s", "a", "n">>) @@
  14 :> JN(I(14), <<"k10", "k4">>,
         <<"hJi", "hyu", "hU", "hYo", "hN">>,
         <<"j", "u", "u", "y", "o", "n">>) @@
  15 :> JN(I(15), <<"k10", "k5">>,
         <<"hJi", "hyu", "hU", "hGo">>,
         <<"j", "u", "u", "g", "o">>) @@
  16 :> JN(I(16), <<"k10", "k6">>,
         <<"hJi", "hyu", "hU", "hRo", "hKu">>,
         <<"j", "u", "u", "r", "o", "k", "u">>) @@
  17 :> JN(I(17), <<"k10", "k7">>,
         <<"hJi", "hyu", "hU", "hNa", "hNa">>,
         <<"j", "u", "u", "n", "a", "n", "a">>) @@
  18 :> JN(I(18), <<"k10", "k8">>,
         <<"hJi", "hyu", "hU", "hHa", "hChi">>,
         <<"j", "u", "u", "h", "a", "c", "h", "i">>) @@
  19 :> JN(I(19), <<"k10", "k9">>,
         <<"hJi", "hyu", "hU", "hKi", "hyu", "hU">>,
         <<"j", "u", "u", "k", "y", "u", "u">>) @@
  20 :> JN(I(20), <<"k2", "k10">>,
         <<"hNi", "hJi", "hyu", "hU">>,
         <<"n", "i", "j", "u", "u">>) @@
  30 :> JN(I(30), <<"k3", "k10">>,
         <<"hSa", "hN", "hJi", "hyu", "hU">>,
         <<"s", "a", "n", "j", "u", "u">>) @@
  40 :> JN(I(40), <<"k4", "k10">>,
         <<"hYo", "hN", "hJi", "hyu", "hU">>,
         <<"y", "o", "n", "j", "u", "u">>) @@
  50 :> JN(I(50), <<"k5", "k10">>,
         <<"hGo", "hJi", "hyu", "hU">>,
         <<"g", "o", "j", "u", "u">>) @@
  60 :> JN(I(60), <<"k6", "k10">>,
         <<"hRo", "hKu", "hJi", "hyu", "hU">>,
         <<"r", "o", "k", "u", "j", "u", "u">>) @@
  70 :> JN(I(70), <<"k7", "k10">>,
         <<"hNa", "hNa", "hJi", "hyu", "hU">>,
         <<"n", "a", "n", "a", "j", "u", "u">>) @@
  80 :> JN(I(80), <<"k8", "k10">>,
         <<"hHa", "hChi", "hJi", "hyu", "hU">>,
         <<"h", "a", "c", "h", "i", "j", "u", "u">>) @@
  90 :> JN(I(90), <<"k9", "k10">>,
         <<"hKi", "hyu", "hU", "hJi", "hyu", "hU">>,
         <<"k", "y", "u", "u", "j", "u", "u">>) @@
  100 :> JN(I(100), <<"k100">>,
         <<"hHi", "hya", "hKu">>,
         <<"h", "y", "a", "k", "u">>)

\* The objects of the table.  The table is a module-level const whose entry
\* objects are handed out by reference, so what they hold is state.
VARIABLE table

\* basicNumbers[n], as it is now
basicNumbers == table

\* the forms of the hundreds digit (switch in convertHundreds)
hundredsForm ==
  1 :> Form(<<"k100">>,
            <<"hHi", "hya", "hKu">>,
            <<"h", "y", "a", "k", "u">>) @@
  2 :> Form(<<"k2", "k100">>,
            <<"hNi", "hHi", "hya", "hKu">>,
            <<"n", "i", "h", "y", "a", "k", "u">>) @@
  3 :> Form(<<"k3", "k100">>,
            <<"hSa", "hN", "hBi", "hya", "hKu">>,
            <<"s", "a", "n", "b", "y", "a", "k", "u">>) @@
  4 :> Form(<<"k4", "k100">>,
            <<"hYo", "hN", "hHi", "hya", "hKu">>,
            <<"y", "o", "n", "h", "y", "a", "k", "u">>) @@
  5 :> Form(<<"k5", "k100">>,
            <<"hGo", "hHi", "hya", "hKu">>,
            <<"g", "o", "h", "y", "a", "k", "u">>) @@
  6 :> Form(<<"k6", "k100">>,
            <<"hRo", "htsu", "hPi", "hya", "hKu">>,
            <<"r", "o", "p", "p", "y", "a", "k", "u">>) @@
  7 :> Form(<<"k7", "k100">>,
            <<"hNa", "hNa", "hHi", "hya", "hKu">>,
            <<"n", "a", "n", "a", "h", "y", "a", "k", "u">>) @@
  8 :> Form(<<"k8", "k100">>,
            <<"hHa", "htsu", "hPi", "hya", "hKu">>,
            <<"h", "a", "p", "p", "y", "a", "k", "u">>) @@
  9 :> Form(<<"k9", "k100">>,
            <<"hKi", "hyu", "hU", "hHi", "hya", "hKu">>,
            <<"k", "y", "u", "u", "h", "y", "a", "k", "u">>)

\* the forms of the thousands digit (switch in convertThousands)
thousandsForm ==
  1 :> Form(<<"k1000">>,
            <<"hSe", "hN">>,
            <<"s", "e", "n">>) @@
  2 :> Form(<<"k2", "k1000">>,
            <<"hNi", "hSe", "hN">>,
            <<"n", "i", "s", "e", "n">>) @@
  3 :> Form(<<"k3", "k1000">>,
            <<"hSa", "hN", "hZe", "hN">>,
            <<"s", "a", "n", "z", "e", "n">>) @@
  4 :> Form(<<"k4", "k1000">>,
            <<"hYo", "hN", "hSe", "hN">>,
            <<"y", "o", "n", "s", "e", "n">>) @@
  5 :> Form(<<"k5", "k1000">>,
            <<"hGo", "hSe", "hN">>,
            <<"g", "o", "s", "e", "n">>) @@
  6 :> Form(<<"k6", "k1000">>,
            <<"hRo", "hKu", "hSe", "hN">>,
            <<"r", "o", "k", "u", "s", "e", "n">>) @@
  7 :> Form(<<"k7", "k1000">>,
            <<"hNa", "hNa", "hSe", "hN">>,
            <<"n", "a", "n", "a", "s", "e", "n">>) @@
  8 :> Form(<<"k8", "k1000">>,
            <<"hHa", "htsu", "hSe", "hN">>,
            <<"h", "a", "s", "s", "e", "n">>) @@
  9 :> Form(<<"k9", "k1000">>,
            <<"hKi", "hyu", "hU", "hSe", "hN">>,
            <<"k", "y", "u", "u", "s", "e", "n">>)

\* the unit suffixes appended by the large-number helpers
manUnit == Form(<<"kMan">>, <<"hMa", "hN">>, <<"m", "a", "n">>)
hyakumanUnit ==
  Form(<<"k100", "kMan">>, <<"hHi", "hya", "hKu", "hMa", "hN">>,
       <<"h", "y", "a", "k", "u", "m", "a", "n">>)
okuUnit == Form(<<"kOku">>, <<"hO", "hKu">>, <<"o", "k", "u">>)
chouUnit == Form(<<"kChou">>, <<"hChi", "hyo", "hU">>, <<"c", "h", "o", "u">>)

\* ------------------------------------------------------- the converter

RECURSIVE convertToJapanese(_)

\* number: num, each field the two forms concatenated
Concat(num, a, b) ==
  JN(num, a.kanji \o b.kanji, a.hiragana \o b.hiragana, a.romaji \o b.romaji)

\* The body shared by convertHundredThousands .. convertHundredTrillions:
\* the multiplier Math.floor(num / 10^k) is converted and suffixed with the
\* unit, the remainder num % 10^k is converted and appended; neither result
\* is tested for the unknown marker.
convertWithUnit(num, k, unit) ==
  LET lead == FloorDiv(num, k)
      remainder == Mod(num, k)
      base == Concat(num, convertToJapanese(lead), unit)
  IN IF remainder = I(0) THEN base
     ELSE Concat(num, base, convertToJapanese(remainder))

\* convertHundreds returning the form of the hundreds digit alone
convertHundredsDroppingRemainder(num) ==
  LET hundreds == FloorDiv(num, 2)
  IN IF ~(hundreds.hi = 0 /\ hundreds.lo \in DOMAIN hundredsForm) THEN Unknown(num)
     ELSE LET form == hundredsForm[hundreds.lo]
          IN JN(num, form.kanji, form.hiragana, form.romaji)

convertHundreds(num) ==
  LET hundreds == FloorDiv(num, 2)
      remainder == Mod(num, 2)
  IN IF ~(hundreds.hi = 0 /\ hundreds.lo \in DOMAIN hundredsForm) THEN Unknown(num)
     ELSE LET form == hundredsForm[hundreds.lo]
          IN IF remainder = I(0)
             THEN JN(num, form.kanji, form.hiragana, form.romaji)
             ELSE LET remainderJapanese == convertToJapanese(remainder)
                  IN IF remainderJapanese.kanji = <<"?">> THEN Unknown(num)
                     ELSE Concat(num, form, remainderJapanese)

\* convertThousands continuing with the last two digits only
convertThousandsDroppingHundreds(num) ==
  LET thousands == FloorDiv(num, 3)
      remainder == Mod(num, 2)
  IN IF ~(thousands.hi = 0 /\ thousands.lo \in DOMAIN thousandsForm) THEN Unknown(num)
     ELSE LET form == thousandsForm[thousands.lo]
          IN IF remainder = I(0)
             THEN JN(num, form.kanji, form.hiragana, form.romaji)
             ELSE LET remainderJapanese == convertToJapanese(remainder)
                  IN IF remainderJapanese.kanji = <<"?">> THEN Unknown(num)
                     ELSE Concat(num, form, remainderJapanese)

convertThousands(num) ==
  LET thousands == FloorDiv(num, 3)
      remainder == Mod(num, 3)
  IN IF ~(thousands.hi = 0 /\ thousands.lo \in DOMAIN thousandsForm) THEN Unknown(num)
     ELSE LET form == thousandsForm[thousands.lo]
          IN IF remainder = I(0)
             THEN JN(num, form.kanji, form.hiragana, form.romaji)
             ELSE LET remainderJapanese == convertToJapanese(remainder)
                  IN IF remainderJapanese.kanji = <<"?">> THEN Unknown(num)
                     ELSE Concat(num, form, remainderJapanese)

convertTenThousands(num) ==
  LET tenThousands == FloorDiv(num, 4)
      remainder == Mod(num, 4)
      base == IF tenThousands = I(1)
              THEN Form(<<"k1", "kMan">>, <<"hI", "hChi", "hMa", "hN">>,
                        <<"i", "c", "h", "i", "m", "a", "n">>)
              ELSE Concat(num, convertToJapanese(tenThousands), manUnit)
  IN IF remainder = I(0)
     THEN JN(num, base.kanji, base.hiragana, base.romaji)
     ELSE Concat(num, base, convertToJapanese(remainder))

convertHundredThousands(num) == convertWithUnit(num, 4, manUnit)

convertMillions(num) == convertWithUnit(num, 6, hyakumanUnit)

convertTenMillions(num) == convertWithUnit(num, 6, hyakumanUnit)

convertHundredMillions(num) == convertWithUnit(num, 8, okuUnit)

convertBillions(num) == convertWithUnit(num, 8, okuUnit)

convertTenBillions(num) == convertWithUnit(num, 8, okuUnit)

convertHundredBillions(num) == convertWithUnit(num, 8, okuUnit)

convertTrillions(num) == convertWithUnit(num, 12, chouUnit)

convertTenTrillions(num) == convertWithUnit(num, 12, chouUnit)

convertHundredTrillions(num) == convertWithUnit(num, 12, chouUnit)

\* basicNumbers[num] is defined
\* the table test failing on the entry of 0
IsBasicNonZero(num) == num.hi = 0 /\ num.lo \in DOMAIN basicNumbers \ {0}

IsBasic(num) == num.hi = 0 /\ num.lo \in DOMAIN basicNumbers

\* convertTens missing the decade 90 in its table lookup
convertTensMissingDecade(num) ==
  LET tens == (num.lo \div 10) * 10
      ones == num.lo % 10
  IN IF ones = 0
     THEN IF tens \notin DOMAIN basicNumbers \ {90} THEN Unknown(num)
          ELSE basicNumbers[tens]
     ELSE IF tens \notin DOMAIN basicNumbers \ {90} \/ ones \notin DOMAIN basicNumbers
          THEN Unknown(num)
          ELSE Concat(num, basicNumbers[tens], basicNumbers[ones])

\* the branch for 21..99: the decade's entry, followed by the ones digit's
convertTens(num) ==
  LET tens == (num.lo \div 10) * 10
      ones == num.lo % 10
  IN IF ones = 0
     THEN IF tens \notin DOMAIN basicNumbers THEN Unknown(num)
          ELSE basicNumbers[tens]
     ELSE IF tens \notin DOMAIN basicNumbers \/ ones \notin DOMAIN basicNumbers
          THEN Unknown(num)
          ELSE Concat(num, basicNumbers[tens], basicNumbers[ones])

\* num < 0 || num > 999999999999999
OutOfRange(num) == Lt(num, I(0)) \/ Gt(num, MaxNumber)

\* convertToJapanese with the hundred-thousands band ending below 999999
convertToJapaneseGap(num) ==
  IF IsBasic(num) THEN basicNumbers[num.lo]
  ELSE IF OutOfRange(num) THEN Unknown(num)
  ELSE IF Gt(num, I(20)) /\ Lt(num, P10(2)) THEN convertTens(num)
  ELSE IF Ge(num, P10(2)) /\ Lt(num, P10(3)) THEN convertHundreds(num)
  ELSE IF Ge(num, P10(3)) /\ Lt(num, P10(4)) THEN convertThousands(num)
  ELSE IF Ge(num, P10(4)) /\ Lt(num, P10(5)) THEN convertTenThousands(num)
  ELSE IF Ge(num, P10(5)) /\ Lt(num, I(999999)) THEN convertHundredThousands(num)
  ELSE IF num = P10(6)
       THEN JN(num, <<"k100", "kMan">>, <<"hHi", "hya", "hKu", "hMa", "hN">>,
               <<"h", "y", "a", "k", "u", "m", "a", "n">>)
  ELSE IF Ge(num, P10(6)) /\ Lt(num, P10(7)) THEN convertMillions(num)
  ELSE IF Ge(num, P10(7)) /\ Lt(num, P10(8)) THEN convertTenMillions(num)
  ELSE IF Ge(num, P10(8)) /\ Lt(num, P10(9)) THEN convertHundredMillions(num)
  ELSE IF Ge(num, P10(9)) /\ Lt(num, P10(10)) THEN convertBillions(num)
  ELSE IF Ge(num, P10(10)) /\ Lt(num, P10(11)) THEN convertTenBillions(num)
  ELSE IF Ge(num, P10(11)) /\ Lt(num, P10(12)) THEN convertHundredBillions(num)
  ELSE IF num = P10(12)
       THEN JN(num, <<"k1", "kChou">>, <<"hI", "htsu", "hChi", "hyo", "hU">>,
               <<"i", "c", "c", "h", "o", "u">>)
  ELSE IF Ge(num, P10(12)) /\ Lt(num, P10(13)) THEN convertTrillions(num)
  ELSE IF Ge(num, P10(13)) /\ Lt(num, P10(14)) THEN convertTenTrillions(num)
  ELSE IF Ge(num, P10(14)) /\ Lt(num, P10(15)) THEN convertHundredTrillions(num)
  ELSE Unknown(num)

\* convertToJapanese without the fixed points 1,000,000 and 1,000,000,000,000
convertToJapaneseGeneric(num) ==
  IF IsBasic(num) THEN basicNumbers[num.lo]
  ELSE IF OutOfRange(num) THEN Unknown(num)
  ELSE IF Gt(num, I(20)) /\ Lt(num, P10(2)) THEN convertTens(num)
  ELSE IF Ge(num, P10(2)) /\ Lt(num, P10(3)) THEN convertHundreds(num)
  ELSE IF Ge(num, P10(3)) /\ Lt(num, P10(4)) THEN convertThousands(num)
  ELSE IF Ge(num, P10(4)) /\ Lt(num, P10(5)) THEN convertTenThousands(num)
  ELSE IF Ge(num, P10(5)) /\ Le(num, I(999999)) THEN convertHundredThousands(num)
  ELSE IF Ge(num, P10(6)) /\ Lt(num, P10(7)) THEN convertMillions(num)
  ELSE IF Ge(num, P10(7)) /\ Lt(num, P10(8)) THEN convertTenMillions(num)
  ELSE IF Ge(num, P10(8)) /\ Lt(num, P10(9)) THEN convertHundredMillions(num)
  ELSE IF Ge(num, P10(9)) /\ Lt(num, P10(10)) THEN convertBillions(num)
  ELSE IF Ge(num, P10(10)) /\ Lt(num, P10(11)) THEN convertTenBillions(num)
  ELSE IF Ge(num, P10(11)) /\ Lt(num, P10(12)) THEN convertHundredBillions(num)
  ELSE IF Ge(num, P10(12)) /\ Lt(num, P10(13)) THEN convertTrillions(num)
  ELSE IF Ge(num, P10(13)) /\ Lt(num, P10(14)) THEN convertTenTrillions(num)
  ELSE IF Ge(num, P10(14)) /\ Lt(num, P10(15)) THEN convertHundredTrillions(num)
  ELSE Unknown(num)

convertToJapanese(num) ==
  IF IsBasic(num) THEN basicNumbers[num.lo]
  ELSE IF OutOfRange(num) THEN Unknown(num)
  ELSE IF Gt(num, I(20)) /\ Lt(num, P10(2)) THEN convertTens(num)
  ELSE IF Ge(num, P10(2)) /\ Lt(num, P10(3)) THEN convertHundreds(num)
  ELSE IF Ge(num, P10(3)) /\ Lt(num, P10(4)) THEN convertThousands(num)
  ELSE IF Ge(num, P10(4)) /\ Lt(num, P10(5)) THEN convertTenThousands(num)
  ELSE IF Ge(num, P10(5)) /\ Le(num, I(999999)) THEN convertHundredThousands(num)
  ELSE IF num = P10(6)
       THEN JN(num, <<"k100", "kMan">>, <<"hHi", "hya", "hKu", "hMa", "hN">>,
               <<"h", "y", "a", "k", "u", "m", "a", "n">>)
  ELSE IF Ge(num, P10(6)) /\ Lt(num, P10(7)) THEN convertMillions(num)
  ELSE IF Ge(num, P10(7)) /\ Lt(num, P10(8)) THEN convertTenMillions(num)
  ELSE IF Ge(num, P10(8)) /\ Lt(num, P10(9)) THEN convertHundredMillions(num)
  ELSE IF Ge(num, P10(9)) /\ Lt(num, P10(10)) THEN convertBillions(num)
  ELSE IF Ge(num, P10(10)) /\ Lt(num, P10(11)) THEN convertTenBillions(num)
  ELSE IF Ge(num, P10(11)) /\ Lt(num, P10(12)) THEN convertHundredBillions(num)
  ELSE IF num = P10(12)
       THEN JN(num, <<"k1", "kChou">>, <<"hI", "htsu", "hChi", "hyo", "hU">>,
               <<"i", "c", "c", "h", "o", "u">>)
  ELSE IF Ge(num, P10(12)) /\ Lt(num, P10(13)) THEN convertTrillions(num)
  ELSE IF Ge(num, P10(13)) /\ Lt(num, P10(14)) THEN convertTenTrillions(num)
  ELSE IF Ge(num, P10(14)) /\ Lt(num, P10(15)) THEN convertHundredTrillions(num)
  ELSE Unknown(num)

\* ------------------------------------------------ the calls of a conversion

\* SplitExponent splitting the numbers below 1000 by 1000
SplitExponentWide(num) ==
  IF Lt(num, P10(4)) THEN 3
  ELSE IF Lt(num, P10(6)) THEN 4 ELSE IF Lt(num, P10(8)) THEN 6
  ELSE IF Lt(num, P10(12)) THEN 8 ELSE 12

\* the exponent k of the split num = lead * 10^k + remainder made by the
\* helper of the band of num, for num in [100, 10^15)
SplitExponent(num) ==
  IF Lt(num, P10(3)) THEN 2 ELSE IF Lt(num, P10(4)) THEN 3
  ELSE IF Lt(num, P10(6)) THEN 4 ELSE IF Lt(num, P10(8)) THEN 6
  ELSE IF Lt(num, P10(12)) THEN 8 ELSE 12

\* the helper converts the leading multiplier by a call of convertToJapanese:
\* not convertHundreds and convertThousands (a switch), not convertTenThousands
\* for the multiplier 1
ConvertsLead(num) ==
  \/ Ge(num, P10(4)) /\ Lt(num, P10(5)) /\ FloorDiv(num, SplitExponent(num)) # I(1)
  \/ Ge(num, P10(5))

\* recursiveCalls with the ones digit of 21..99 converted by a call as well
recursiveCallsForOnes(num) ==
  IF IsBasic(num) \/ OutOfRange(num) \/ num = P10(6) \/ num = P10(12)
  THEN {}
  ELSE IF Lt(num, P10(2)) THEN {Mod(num, 1)}
  ELSE (IF ConvertsLead(num) THEN {FloorDiv(num, SplitExponent(num))} ELSE {})
       \cup (IF Mod(num, SplitExponent(num)) # I(0)
             THEN {Mod(num, SplitExponent(num))} ELSE {})

\* the arguments of the calls of convertToJapanese made by the body of
\* convertToJapanese(num) and by the helper it returns through
recursiveCalls(num) ==
  IF IsBasic(num) \/ OutOfRange(num) \/ Lt(num, P10(2))
     \/ num = P10(6) \/ num = P10(12)
  THEN {}
  ELSE (IF ConvertsLead(num) THEN {FloorDiv(num, SplitExponent(num))} ELSE {})
       \cup (IF Mod(num, SplitExponent(num)) # I(0)
             THEN {Mod(num, SplitExponent(num))} ELSE {})

\* the deepest nesting of convertToJapanese invocations under
\* convertToJapanese(num), the outermost counted as 1
RECURSIVE callDepth(_)
callDepth(num) ==
  LET below == { callDepth(a) : a \in recursiveCalls(num) }
  IN 1 + (IF below = {} THEN 0 ELSE CHOOSE d \in below : \A e \in below : e <= d)

\* --------------------------------------------------------- the sampler

\* RoundTo with Math.floor in place of Math.round
RoundDown(num, g) == Mk(num.hi, (num.lo \div g) * g)

\* Math.round(num / g) * g for num >= 0 and a granularity g that divides
\* 10^8: only lo is rounded, a carry goes into hi; Math.round takes an exact
\* half up.  (num / g is below 10^7 with a fraction that is a multiple of
\* 1/g >= 10^-8, so the floating-point quotient rounds as the exact one.)
RoundTo(num, g) == Mk(num.hi, ((num.lo + (g \div 2)) \div g) * g)

\* roundToRealistic with the step of the band below copied into [10^4, 10^5)
roundToRealisticCopied(num) ==
  IF Lt(num, P10(3)) THEN num
  ELSE IF Lt(num, P10(4)) THEN RoundTo(num, 100)
  ELSE IF Lt(num, P10(5)) THEN RoundTo(num, 100)
  ELSE IF Lt(num, P10(6)) THEN RoundTo(num, 1000)
  ELSE IF Lt(num, P10(7)) THEN RoundTo(num, 10000)
  ELSE IF Lt(num, P10(8)) THEN RoundTo(num, 50000)
  ELSE IF Lt(num, P10(9)) THEN RoundTo(num, 100000)
  ELSE IF Lt(num, P10(10)) THEN RoundTo(num, 1000000)
  ELSE IF Lt(num, P10(11)) THEN RoundTo(num, 5000000)
  ELSE IF Lt(num, P10(12)) THEN RoundTo(num, 10000000)
  ELSE RoundTo(num, 100000000)

\* roundToRealistic with a mistyped multiplier in [10^4, 10^5):
\* Math.round(num / 500) * 50
roundToRealisticMistyped(num) ==
  IF Lt(num, P10(3)) THEN num
  ELSE IF Lt(num, P10(4)) THEN RoundTo(num, 100)
  ELSE IF Lt(num, P10(5)) THEN Mk(0, ((num.lo + 250) \div 500) * 50)
  ELSE IF Lt(num, P10(6)) THEN RoundTo(num, 1000)
  ELSE IF Lt(num, P10(7)) THEN RoundTo(num, 10000)
  ELSE IF Lt(num, P10(8)) THEN RoundTo(num, 50000)
  ELSE IF Lt(num, P10(9)) THEN RoundTo(num, 100000)
  ELSE IF Lt(num, P10(10)) THEN RoundTo(num, 1000000)
  ELSE IF Lt(num, P10(11)) THEN RoundTo(num, 5000000)
  ELSE IF Lt(num, P10(12)) THEN RoundTo(num, 10000000)
  ELSE RoundTo(num, 100000000)

roundToRealistic(num) ==
  IF Lt(num, P10(3)) THEN num
  ELSE IF Lt(num, P10(4)) THEN RoundTo(num, 100)
  ELSE IF Lt(num, P10(5)) THEN RoundTo(num, 500)
  ELSE IF Lt(num, P10(6)) THEN RoundTo(num, 1000)
  ELSE IF Lt(num, P10(7)) THEN RoundTo(num, 10000)
  ELSE IF Lt(num, P10(8)) THEN RoundTo(num, 50000)
  ELSE IF Lt(num, P10(9)) THEN RoundTo(num, 100000)
  ELSE IF Lt(num, P10(10)) THEN RoundTo(num, 1000000)
  ELSE IF Lt(num, P10(11)) THEN RoundTo(num, 5000000)
  ELSE IF Lt(num, P10(12)) THEN RoundTo(num, 10000000)
  ELSE RoundTo(num, 100000000)

\* Math.floor(Math.random() * 1000000000000000) can be rawNumber
IsRawNumber(rawNumber) == Ge(rawNumber, I(0)) /\ Lt(rawNumber, P10(15))

\* generateRandomNumber, for the draw rawNumber
generateRandomNumber(rawNumber) == roundToRealistic(rawNumber)

\* the ranges of the practice levels, and the default range of the settings
practiceLevelConfigs ==
  << [minNumber |-> I(1), maxNumber |-> I(19)],
     [minNumber |-> I(20), maxNumber |-> I(99)],
     [minNumber |-> I(100), maxNumber |-> I(999)],
     [minNumber |-> I(1000), maxNumber |-> I(9999)],
     [minNumber |-> I(10000), maxNumber |-> I(99999)],
     [minNumber |-> I(100000), maxNumber |-> I(99999999)],
     [minNumber |-> P10(8), maxNumber |-> Minus(P10(12), I(1))],
     [minNumber |-> P10(12), maxNumber |-> Minus(P10(15), I(1))],
     [minNumber |-> I(1), maxNumber |-> I(100)] >>

\* Math.floor(Math.random() * (rangeMax - rangeMin + 1)) + rangeMin can be
\* rawNumber
IsDraw(rangeMin, rangeMax, rawNumber) ==
  Ge(rawNumber, rangeMin) /\ Le(rawNumber, rangeMax)

\* generateNumber / generateNumberForLevel, for the draw rawNumber
generateNumber(rawNumber) == roundToRealistic(rawNumber)

\* --------------------------------------------------------- the matcher

UpperCase ==
  {"A", "B", "C", "D", "E", "F", "G", "H", "I", "J", "K", "L", "M",
   "N", "O", "P", "Q", "R", "S", "T", "U", "V", "W", "X", "Y", "Z"}

LowerOf ==
  "A" :> "a" @@ "B" :> "b" @@ "C" :> "c" @@ "D" :> "d" @@ "E" :> "e" @@
  "F" :> "f" @@ "G" :> "g" @@ "H" :> "h" @@ "I" :> "i" @@ "J" :> "j" @@
  "K" :> "k" @@ "L" :> "l" @@ "M" :> "m" @@ "N" :> "n" @@ "O" :> "o" @@
  "P" :> "p" @@ "Q" :> "q" @@ "R" :> "r" @@ "S" :> "s" @@ "T" :> "t" @@
  "U" :> "u" @@ "V" :> "v" @@ "W" :> "w" @@ "X" :> "x" @@ "Y" :> "y" @@
  "Z" :> "z"

\* String.prototype.toLowerCase: kana, kanji, digits and marks are unchanged
toLowerCase(s) ==
  [i \in 1..Len(s) |-> IF s[i] \in UpperCase THEN LowerOf[s[i]] ELSE s[i]]

WhiteSpace == {" ", "\t", "\n", "\r"}

RECURSIVE trimStart(_)
trimStart(s) ==
  IF s # <<>> /\ Head(s) \in WhiteSpace THEN trimStart(Tail(s)) ELSE s

RECURSIVE trimEnd(_)
trimEnd(s) ==
  IF s # <<>> /\ s[Len(s)] \in WhiteSpace
  THEN trimEnd(SubSeq(s, 1, Len(s) - 1)) ELSE s

\* String.prototype.trim
trim(s) == trimEnd(trimStart(s))

\* pat occurs in s at position i
MatchAt(s, pat, i) ==
  i + Len(pat) - 1 <= Len(s) /\ SubSeq(s, i, i + Len(pat) - 1) = pat

\* s.includes(pat)
Includes(s, pat) == \E i \in 1..Len(s) : MatchAt(s, pat, i)

\* s.replace(new RegExp(pat, "g"), rep) for a literal pat: the matches are
\* taken left to right and do not overlap
RECURSIVE ReplaceAll(_, _, _)
ReplaceAll(s, pat, rep) ==
  IF s = <<>> THEN <<>>
  ELSE IF MatchAt(s, pat, 1)
       THEN rep \o ReplaceAll(SubSeq(s, Len(pat) + 1, Len(s)), pat, rep)
       ELSE <<Head(s)>> \o ReplaceAll(Tail(s), pat, rep)

Vowels == {"a", "e", "i", "o", "u"}

RECURSIVE Flatten(_)
Flatten(parts) ==
  IF parts = <<>> THEN <<>> ELSE Head(parts) \o Flatten(Tail(parts))

\* (?![aeiou]): no vowel at position j (the end of the string included)
NoVowelAt(s, j) == j > Len(s) \/ s[j] \notin Vowels

\* (?=[bpmfv]): one of b p m f v at position j
LabialAt(s, j) == j <= Len(s) /\ s[j] \in {"b", "p", "m", "f", "v"}

\* s.replace(new RegExp(`${short}(?![aeiou])`, "g"), long) for the letter short
ReplaceBeforeNonVowel(s, short, long) ==
  Flatten([i \in 1..Len(s) |->
             IF s[i] = short /\ NoVowelAt(s, i + 1) THEN long ELSE <<s[i]>>])

\* s.replace(/n(?=[bpmfv])/g, "nn")
DoubleNBeforeLabial(s) ==
  Flatten([i \in 1..Len(s) |->
             IF s[i] = "n" /\ LabialAt(s, i + 1) THEN <<"n", "n">> ELSE <<s[i]>>])

longVowelMappings ==
  << [long |-> <<"u", "u">>, short |-> <<"u">>],
     [long |-> <<"o", "u">>, short |-> <<"o">>],
     [long |-> <<"a", "a">>, short |-> <<"a">>],
     [long |-> <<"i", "i">>, short |-> <<"i">>],
     [long |-> <<"e", "e">>, short |-> <<"e">>] >>

ySoundMappings ==
  << [with_y |-> <<"j", "y", "u">>, without_y |-> <<"j", "u">>],
     [with_y |-> <<"k", "y", "u">>, without_y |-> <<"k", "u">>],
     [with_y |-> <<"s", "y", "u">>, without_y |-> <<"s", "u">>],
     [with_y |-> <<"t", "y", "u">>, without_y |-> <<"t", "u">>],
     [with_y |-> <<"n", "y", "u">>, without_y |-> <<"n", "u">>],
     [with_y |-> <<"h", "y", "u">>, without_y |-> <<"h", "u">>],
     [with_y |-> <<"m", "y", "u">>, without_y |-> <<"m", "u">>],
     [with_y |-> <<"r", "y", "u">>, without_y |-> <<"r", "u">>],
     [with_y |-> <<"g", "y", "u">>, without_y |-> <<"g", "u">>],
     [with_y |-> <<"z", "y", "u">>, without_y |-> <<"z", "u">>],
     [with_y |-> <<"d", "y", "u">>, without_y |-> <<"d", "u">>],
     [with_y |-> <<"b", "y", "u">>, without_y |-> <<"b", "u">>],
     [with_y |-> <<"p", "y", "u">>, without_y |-> <<"p", "u">>] >>

\* first loop of generateRomajiVariants: the long-vowel variants of romaji
longVowelVariants(romaji) ==
  {romaji}
  \cup { ReplaceAll(romaji, longVowelMappings[m].long, longVowelMappings[m].short) :
           m \in { k \in DOMAIN longVowelMappings :
                     Includes(romaji, longVowelMappings[k].long) } }
  \cup { ReplaceBeforeNonVowel(romaji, longVowelMappings[m].short[1],
                               longVowelMappings[m].long) :
           m \in { k \in DOMAIN longVowelMappings :
                     /\ Includes(romaji, longVowelMappings[k].short)
                     /\ ~Includes(romaji, longVowelMappings[k].long) } }

\* second loop: the y-sound variants of every variant found so far
ySoundVariants(variants) ==
  variants
  \cup { ReplaceAll(v, ySoundMappings[m].with_y, ySoundMappings[m].without_y) :
           v \in variants, m \in DOMAIN ySoundMappings }
  \cup { ReplaceAll(v, ySoundMappings[m].without_y, ySoundMappings[m].with_y) :
           v \in variants, m \in DOMAIN ySoundMappings }

\* third loop: the n / nn variants of every variant found so far
nVariants(variants) ==
  variants
  \cup { DoubleNBeforeLabial(v) : v \in variants }
  \cup { ReplaceAll(v, <<"n", "n">>, <<"n">>) : v \in variants }

\* generateRomajiVariants whose second loop visits the given romaji only
generateRomajiVariantsOfOriginal(romaji) ==
  nVariants(longVowelVariants(romaji) \cup ySoundVariants({romaji}))

generateRomajiVariants(romaji) ==
  nVariants(ySoundVariants(longVowelVariants(romaji)))

\* isRomajiMatch accepting any part of the correct romaji
isRomajiMatchPart(userInput, correctRomaji) ==
  LET normalizedInput == trim(toLowerCase(userInput))
      normalizedCorrect == trim(toLowerCase(correctRomaji))
  IN \/ Includes(normalizedCorrect, normalizedInput)
     \/ normalizedInput \in generateRomajiVariants(normalizedCorrect)

\* isRomajiMatch normalizing the user input only
isRomajiMatchRawCorrect(userInput, correctRomaji) ==
  LET normalizedInput == trim(toLowerCase(userInput))
  IN \/ normalizedInput = correctRomaji
     \/ normalizedInput \in generateRomajiVariants(correctRomaji)

isRomajiMatch(userInput, correctRomaji) ==
  LET normalizedInput == trim(toLowerCase(userInput))
      normalizedCorrect == trim(toLowerCase(correctRomaji))
  IN \/ normalizedInput = normalizedCorrect
     \/ normalizedInput \in generateRomajiVariants(normalizedCorrect)

\* isAnswerCorrect without the kanji comparison
isAnswerCorrectNoKanji(userInput, japaneseNumber) ==
  LET normalizedInput == trim(toLowerCase(userInput))
  IN \/ normalizedInput = japaneseNumber.hiragana
     \/ isRomajiMatch(normalizedInput, japaneseNumber.romaji)

isAnswerCorrect(userInput, japaneseNumber) ==
  LET normalizedInput == trim(toLowerCase(userInput))
  IN \/ normalizedInput = japaneseNumber.hiragana
     \/ normalizedInput = japaneseNumber.kanji
     \/ isRomajiMatch(normalizedInput, japaneseNumber.romaji)

\* Object.keys(basicNumbers).map(Number): integer keys in ascending order
basicNumberKeys == SortSeq([i \in 1..Cardinality(DOMAIN basicNumbers) |->
                              CHOOSE k \in DOMAIN basicNumbers :
                                Cardinality({j \in DOMAIN basicNumbers : j < k}) = i - 1],
                           LAMBDA a, b : a < b)

\* the loop over 21..99: the numbers without a table entry, in loop order
compoundNumbers ==
  SelectSeq([i \in 1..79 |-> i + 20], LAMBDA i : i \notin DOMAIN basicNumbers)

\* getSupportedNumbers without the final sort
getSupportedNumbersUnsorted == basicNumberKeys \o compoundNumbers

getSupportedNumbers ==
  SortSeq(basicNumberKeys \o compoundNumbers, LAMBDA a, b : a < b)

\* ------------------------------------------------- the practice round
\*
\* One round of practice: a number is chosen (given by the caller, or drawn
\* and rounded by generateRandomNumber), converted, and an answer is checked
\* against the conversion.

VARIABLES
  pc,             \* "idle", "ready" (number chosen), "shown" (converted), "answered"
  source,         \* "none", "caller" or "sampler": where currentNumber came from
  rawNumber,      \* the sampler's draw before rounding (the caller's number otherwise)
  currentNumber,  \* the number of the round
  japanese,       \* convertToJapanese(currentNumber), once pc is "shown"
  userInput,      \* the answer that was checked
  isCorrect,      \* isAnswerCorrect(userInput, japanese), once pc is "answered"
  call,           \* a call of one exported function by itself: [fn, args, result]
  gameState,      \* suji-dash: "configuration", "playing" or "results"
  currentConfig,  \* suji-dash: the configuration of the session being played
  game,           \* suji-dash: the state of GamePlayStep
  currentSession  \* suji-dash: the GameSession handed to onComplete

vars ==
  <<pc, source, rawNumber, currentNumber, japanese, userInput, isCorrect, call,
    gameState, currentConfig, game, currentSession, table>>

\* the state of the practice round and of the direct calls
round ==
  <<pc, source, rawNumber, currentNumber, japanese, userInput, isCorrect, call>>

\* the state of the suji-dash page
quiz == <<gameState, currentConfig, game, currentSession>>

\* no call has been made
NoCall == [fn |-> "none", args |-> <<>>, result |-> FALSE]

\* ---- the inputs that are enumerated

MaxSmall == 9999    \* every number 0..MaxSmall is an input
MaxLead == 20      \* the multiples d * 10^k, d in 1..MaxLead, and their neighbours
MaxDelta == 2      \* neighbours: at most MaxDelta away
MaxAnswered == 25   \* wrong and alternative answers are tried on numbers up to here
MaxVariant == 100   \* the spelling variants of 0..MaxVariant are tried as answers
MaxClosure == 20    \* the variant sets of the romaji of 0..MaxClosure are generated
MaxRival == 40      \* the canonical forms of 0..MaxRival are tried as answers

\* the rounding step applied to numbers of k + 1 digits (1 when unrounded)
StepOfDigits(k) ==
  IF k <= 2 THEN 1
  ELSE IF k >= 12 THEN 10^8
  ELSE <<100, 500, 1000, 10000, 50000, 100000, 1000000, 5000000, 10000000>>[k - 2]

\* d * 10^k
Scale(d, k) == IF k < 8 THEN Mk(0, d * 10^k) ELSE Mk(d * 10^(k - 8), 0)

SmallInputs == { I(n) : n \in (0 - MaxDelta)..MaxSmall }

\* around every d * 10^k: the number, and the rounding halves above and
\* below it, each with its neighbours
EdgeInputs ==
  UNION { { Plus(Scale(d, k), s * (h \div 2) + e) :
              s \in {-1, 0, 1}, e \in (0 - MaxDelta)..MaxDelta,
              h \in {StepOfDigits(k), StepOfDigits(k - 1)} } :
          d \in 1..MaxLead, k \in 0..15 }

\* numbers with several non-zero four-digit periods
PeriodValues == {0, 1, 21, 300, 6800, 9999}
PeriodInputs ==
  { Mk(p3 * 10^4 + p2, p1 * 10^4 + p0) :
      p3 \in {0, 1, 21, 300}, p2 \in PeriodValues,
      p1 \in PeriodValues, p0 \in PeriodValues }

Inputs == SmallInputs \cup EdgeInputs \cup PeriodInputs

\* the readings of 4 and 7 that are not the canonical output, and a wrong answer
OtherAnswers ==
  { <<"s", "h", "i">>, <<"hShi">>,
    <<"s", "h", "i", "c", "h", "i">>, <<"hShi", "hChi">>,
    <<"i", "c", "h", "i">> }

\* numbers whose canonical forms are tried as answers to other numbers
LargeRivals ==
  { I(121), I(300), I(1000), I(1001), I(3000), P10(4), I(10001), I(210000),
    P10(6), I(1000001), I(2000000), P10(7), P10(8), P10(12), Plus(P10(12), 1) }

Rivals == { I(n) : n \in 0..MaxRival } \cup LargeRivals

\* the three canonical forms of num
CanonicalForms(num) ==
  LET t == convertToJapanese(num) IN {t.kanji, t.hiragana, t.romaji}

RivalForms == [w \in Rivals |-> CanonicalForms(w)]

RivalAnswers == UNION { RivalForms[w] : w \in Rivals }

\* wrong and alternative answers are tried on num
IsAnswered(num) == Ge(num, I(0)) /\ Le(num, I(MaxAnswered))

\* rival answers are tried on num when the caller chose it
IsRivalled(num) ==
  source = "caller" /\ (IsAnswered(num) \/ num \in LargeRivals)

\* the spellings of the romaji c with every "uu" collapsed, every "ju" written
\* "jyu", every "kyu" written "ku", and the collapse followed by one of the two
SpellingVariants(c) ==
  LET collapsed == ReplaceAll(c, <<"u", "u">>, <<"u">>)
  IN { collapsed,
       ReplaceAll(c, <<"j", "u">>, <<"j", "y", "u">>),
       ReplaceAll(c, <<"k", "y", "u">>, <<"k", "u">>),
       ReplaceAll(collapsed, <<"j", "u">>, <<"j", "y", "u">>),
       ReplaceAll(collapsed, <<"k", "y", "u">>, <<"k", "u">>) }

\* spelling variants are tried on num when the caller chose it
IsVaried(num) ==
  /\ source = "caller"
  /\ \/ Ge(num, I(0)) /\ Le(num, I(MaxVariant))
     \/ num \in LargeRivals \cup {I(1019), I(9999), P10(13)}

\* the answers tried on the triple t of the number num
Answers(num, t) ==
  {t.kanji, t.hiragana, t.romaji}
  \cup (IF IsAnswered(num) THEN OtherAnswers ELSE {})
  \cup (IF IsRivalled(num) THEN RivalAnswers ELSE {})
  \cup (IF IsVaried(num) THEN SpellingVariants(t.romaji) ELSE {})

\* ---- the round

\* currentConfig is null
NoConfig == [rangeMin |-> I(0), rangeMax |-> I(0), questionCount |-> 0]

\* currentSession is null
NoSession == [totalQuestions |-> 0, correctAnswers |-> 0, answers |-> <<>>]

\* the state GamePlayStep is mounted with; isCorrect is "null", "true" or "false"
NoGame ==
  [currentQuestionIndex |-> 0, currentNumber |-> I(0), userGuess |-> <<>>,
   showAnswer |-> FALSE, isCorrect |-> "null", answers |-> <<>>]

Init ==
  /\ pc = "idle"
  /\ source = "none"
  /\ rawNumber = I(0)
  /\ currentNumber = I(0)
  /\ japanese = Unknown(I(0))
  /\ userInput = <<>>
  /\ isCorrect = FALSE
  /\ call = NoCall
  /\ gameState = "configuration"
  /\ currentConfig = NoConfig
  /\ game = NoGame
  /\ currentSession = NoSession
  /\ table = basicNumbersInitializer

\* the caller passes a number of its own
SetNumber ==
  /\ pc = "idle"
  /\ \E num \in Inputs :
       /\ rawNumber' = num
       /\ currentNumber' = num
  /\ source' = "caller"
  /\ pc' = "ready"
  /\ UNCHANGED <<japanese, userInput, isCorrect, call>>
  /\ UNCHANGED <<quiz, table>>

\* generateRandomNumber: a draw in [0, 10^15), rounded
GenerateRandomNumber ==
  /\ pc = "idle"
  /\ \E raw \in { n \in Inputs : IsRawNumber(n) } :
       /\ rawNumber' = raw
       /\ currentNumber' = generateRandomNumber(raw)
  /\ source' = "sampler"
  /\ pc' = "ready"
  /\ UNCHANGED <<japanese, userInput, isCorrect, call>>
  /\ UNCHANGED <<quiz, table>>

\* convertToJapanese(currentNumber)
ConvertToJapanese ==
  /\ pc = "ready"
  /\ japanese' = convertToJapanese(currentNumber)
  /\ pc' = "shown"
  /\ UNCHANGED <<source, rawNumber, currentNumber, userInput, isCorrect, call>>
  /\ UNCHANGED <<quiz, table>>

\* isAnswerCorrect(answer, japanese)
IsAnswerCorrect ==
  /\ pc = "shown"
  /\ \E answer \in Answers(currentNumber, japanese) :
       /\ userInput' = answer
       /\ isCorrect' = isAnswerCorrect(answer, japanese)
  /\ pc' = "answered"
  /\ UNCHANGED <<source, rawNumber, currentNumber, japanese, call>>
  /\ UNCHANGED <<quiz, table>>

\* the round is over; the next one starts from scratch
\* String.prototype.toUpperCase on the letters a..z
toUpperCase(s) ==
  [i \in 1..Len(s) |->
     IF \E u \in UpperCase : LowerOf[u] = s[i]
     THEN CHOOSE u \in UpperCase : LowerOf[u] = s[i]
     ELSE s[i]]

\* s in other letter cases and with white space around it
Decorations(s) ==
  { s, toUpperCase(s), <<" ">> \o s, s \o <<" ">>,
    <<"\t">> \o toUpperCase(s) \o <<" ", "\n">> }

RomajiStrings ==
  UNION { Decorations(s) :
          s \in { <<>>, <<"j", "u", "u">>, <<"j", "u">>, <<"j", "y", "u", "u">>,
                  <<"i", "c", "h", "i">>, <<"r", "o", "k", "u", "j", "u", "u">>,
                  <<"r", "o", "k", "u", "j", "u">> } }

\* triples of the number 1 whose fields carry letter case and white space
Triples ==
  { JN(I(1), kanji, hiragana, romaji) :
      kanji \in { <<"k1">>, <<" ", "k1", " ">> },
      hiragana \in { <<"hI", "hChi">>, <<"hI", "hChi", " ">> },
      romaji \in { <<"i", "c", "h", "i">>, <<"I", "c", "h", "i">>,
                   <<" ", "i", "c", "h", "i">> } }

TripleAnswers ==
  UNION { Decorations(s) :
          s \in { <<"k1">>, <<"hI", "hChi">>, <<"i", "c", "h", "i">>,
                  <<"n", "i">> } }

\* a caller matches two romaji strings
IsRomajiMatch ==
  /\ pc = "idle"
  /\ \E a \in RomajiStrings, b \in RomajiStrings :
       call' = [fn |-> "isRomajiMatch", args |-> <<a, b>>,
                result |-> isRomajiMatch(a, b)]
  /\ pc' = "called"
  /\ UNCHANGED <<source, rawNumber, currentNumber, japanese, userInput, isCorrect>>
  /\ UNCHANGED <<quiz, table>>

\* a caller checks an answer against a triple of its own
IsAnswerCorrectOfTriple ==
  /\ pc = "idle"
  /\ \E x \in TripleAnswers, t \in Triples :
       call' = [fn |-> "isAnswerCorrect", args |-> <<x, t>>,
                result |-> isAnswerCorrect(x, t)]
  /\ pc' = "called"
  /\ UNCHANGED <<source, rawNumber, currentNumber, japanese, userInput, isCorrect>>
  /\ UNCHANGED <<quiz, table>>

\* a caller asks for the supported numbers
GetSupportedNumbers ==
  /\ pc = "idle"
  /\ call' = [fn |-> "getSupportedNumbers", args |-> <<>>,
              result |-> getSupportedNumbers]
  /\ pc' = "called"
  /\ UNCHANGED <<source, rawNumber, currentNumber, japanese, userInput, isCorrect>>
  /\ UNCHANGED <<quiz, table>>

\* a page generates the number of a question in one of its ranges
GenerateNumber ==
  /\ pc = "idle"
  /\ \E l \in DOMAIN practiceLevelConfigs :
       LET rangeMin == practiceLevelConfigs[l].minNumber
           rangeMax == practiceLevelConfigs[l].maxNumber
       IN \E raw \in { n \in Inputs : IsDraw(rangeMin, rangeMax, n) } :
            call' = [fn |-> "generateNumber", args |-> <<rangeMin, rangeMax, raw>>,
                     result |-> generateNumber(raw)]
  /\ pc' = "called"
  /\ UNCHANGED <<source, rawNumber, currentNumber, japanese, userInput, isCorrect>>
  /\ UNCHANGED <<quiz, table>>

\* isRomajiMatch generates the variants of a canonical romaji
GenerateRomajiVariants ==
  /\ pc = "idle"
  /\ \E n \in 0..MaxClosure :
       LET c == convertToJapanese(I(n)).romaji
       IN call' = [fn |-> "generateRomajiVariants", args |-> <<c>>,
                   result |-> generateRomajiVariants(c)]
  /\ pc' = "called"
  /\ UNCHANGED <<source, rawNumber, currentNumber, japanese, userInput, isCorrect>>
  /\ UNCHANGED <<quiz, table>>

NextRound ==
  /\ pc \in {"answered", "called"}
  /\ pc' = "idle"
  /\ source' = "none"
  /\ rawNumber' = I(0)
  /\ currentNumber' = I(0)
  /\ japanese' = Unknown(I(0))
  /\ userInput' = <<>>
  /\ isCorrect' = FALSE
  /\ call' = NoCall
  /\ UNCHANGED <<quiz, table>>

Next ==
  \/ SetNumber
  \/ GenerateRandomNumber
  \/ ConvertToJapanese
  \/ IsAnswerCorrect
  \/ IsRomajiMatch
  \/ IsAnswerCorrectOfTriple
  \/ GetSupportedNumbers
  \/ GenerateNumber
  \/ GenerateRomajiVariants
  \/ NextRound

Spec == Init /\ [][Next]_vars

\* ------------------------------------------- callers that keep a triple
\*
\* A caller converts a number, overwrites a field of the triple it received
\* and lets the triple go.  For a number with a table entry the triple is the
\* entry object itself (return basicNumbers[num]).

\* the numbers these callers convert
SharedInputs == { I(1), I(10), I(21), I(100), I(101) }

\* what a caller writes into a field
Scribble == <<"x">>

\* a caller chooses its number
SetSharedNumber ==
  /\ pc = "idle"
  /\ \E num \in SharedInputs :
       /\ rawNumber' = num
       /\ currentNumber' = num
  /\ source' = "caller"
  /\ pc' = "ready"
  /\ UNCHANGED <<japanese, userInput, isCorrect, call>>
  /\ UNCHANGED <<quiz, table>>

\* the caller overwrites a field of the triple it holds; the triple of a
\* tabulated number is the table's object
OverwriteField ==
  /\ pc = "shown"
  /\ \E field \in {"kanji", "hiragana", "romaji"} :
       /\ japanese[field] # Scribble
       /\ japanese' = [japanese EXCEPT ![field] = Scribble]
       /\ IF IsBasic(currentNumber)
          THEN table' = [table EXCEPT ![currentNumber.lo][field] = Scribble]
          ELSE UNCHANGED table
  /\ UNCHANGED <<pc, source, rawNumber, currentNumber, userInput, isCorrect, call>>
  /\ UNCHANGED quiz

\* the caller lets the triple go
DropTriple ==
  /\ pc = "shown"
  /\ pc' = "idle"
  /\ source' = "none"
  /\ rawNumber' = I(0)
  /\ currentNumber' = I(0)
  /\ japanese' = Unknown(I(0))
  /\ UNCHANGED <<userInput, isCorrect, call>>
  /\ UNCHANGED <<quiz, table>>

NextShared ==
  \/ SetSharedNumber
  \/ ConvertToJapanese
  \/ OverwriteField
  \/ DropTriple

SpecShared == Init /\ [][NextShared]_vars

\* ---------------------------------------------------- the suji-dash quiz
\*
\* The page is in the configuration step, plays a session of questionCount
\* questions in GamePlayStep and hands the finished GameSession to the
\* results step.  Each action is one event handler.

MaxRecorded == 6    \* checkAnswer is not called once answers holds this many records

\* the session lengths offered: Quick; Standard and Extended are longer
QuestionCounts == {5}

\* the draws of a session, in the default range 1..19
QuizDraws == {I(4), I(10)}

\* what the user types for the number num: nothing, white space, its
\* romaji, or something wrong
Guesses(num) ==
  { <<>>, <<" ">>, convertToJapanese(num).romaji, <<"x">> }

\* checkAnswerForType for the practice type "number-to-japanese"
checkAnswerForType(guess, num) ==
  isAnswerCorrect(trim(toLowerCase(guess)), convertToJapanese(num))

\* onStart(config), and the effect that sets the first question
HandleStartPractice ==
  /\ gameState = "configuration"
  /\ \E count \in QuestionCounts :
       currentConfig' = [rangeMin |-> I(1), rangeMax |-> I(19), questionCount |-> count]
  /\ \E raw \in { n \in QuizDraws : IsDraw(currentConfig'.rangeMin, currentConfig'.rangeMax, n) } :
       game' = [NoGame EXCEPT !.currentNumber = generateNumber(raw)]
  /\ gameState' = "playing"
  /\ UNCHANGED currentSession
  /\ UNCHANGED <<round, table>>

\* the input's onChange; the input is read-only while the answer is shown
SetUserGuess ==
  /\ gameState = "playing"
  /\ ~game.showAnswer
  /\ \E guess \in Guesses(game.currentNumber) \ {game.userGuess} :
       game' = [game EXCEPT !.userGuess = guess]
  /\ UNCHANGED <<gameState, currentConfig, currentSession>>
  /\ UNCHANGED <<round, table>>

\* checkAnswer: by the Enter key while the answer is hidden, or by the
\* Check Answer button, which is shown while the answer is hidden
CheckAnswer ==
  /\ gameState = "playing"
  /\ ~game.showAnswer
  /\ Len(game.answers) < MaxRecorded
  /\ LET guess == trim(game.userGuess)
         correct == checkAnswerForType(guess, game.currentNumber)
         newAnswer == [isCorrect |-> correct]
     IN game' = [game EXCEPT !.isCorrect = IF correct THEN "true" ELSE "false",
                             !.showAnswer = TRUE,
                             !.answers = Append(game.answers, newAnswer)]
  /\ UNCHANGED <<gameState, currentConfig, currentSession>>
  /\ UNCHANGED <<round, table>>

\* the eye button: setShowAnswer(!showAnswer)
ToggleShowAnswer ==
  /\ gameState = "playing"
  /\ game' = [game EXCEPT !.showAnswer = ~game.showAnswer]
  /\ UNCHANGED <<gameState, currentConfig, currentSession>>
  /\ UNCHANGED <<round, table>>

\* answers.filter((a) => a.isCorrect).length
CorrectCount(answers) ==
  Cardinality({ i \in 1..Len(answers) : answers[i].isCorrect })

\* nextQuestion: by the Enter key or the Next button while the answer is
\* shown; after the last question the session goes to onComplete
NextQuestion ==
  /\ gameState = "playing"
  /\ game.showAnswer
  /\ LET nextIndex == game.currentQuestionIndex + 1
     IN IF nextIndex >= currentConfig.questionCount
        THEN /\ currentSession' =
                  [totalQuestions |-> currentConfig.questionCount,
                   correctAnswers |-> CorrectCount(game.answers)
                                      + (IF game.isCorrect = "true" THEN 1 ELSE 0),
                   answers |-> Append(game.answers,
                                      [isCorrect |-> game.isCorrect = "true"])]
             /\ gameState' = "results"
             /\ game' = NoGame
             /\ UNCHANGED currentConfig
        ELSE /\ \E raw \in { n \in QuizDraws :
                              IsDraw(currentConfig.rangeMin, currentConfig.rangeMax, n) } :
                  game' = [game EXCEPT !.currentQuestionIndex = nextIndex,
                                       !.currentNumber = generateNumber(raw),
                                       !.userGuess = <<>>,
                                       !.showAnswer = FALSE,
                                       !.isCorrect = "null"]
             /\ UNCHANGED <<gameState, currentConfig, currentSession>>
  /\ UNCHANGED <<round, table>>

\* the Back button or Escape while playing
HandleBackToConfiguration ==
  /\ gameState = "playing"
  /\ gameState' = "configuration"
  /\ currentConfig' = NoConfig
  /\ currentSession' = NoSession
  /\ game' = NoGame
  /\ UNCHANGED <<round, table>>

\* Practice Again or Escape on the results
HandleRestart ==
  /\ gameState = "results"
  /\ gameState' = "configuration"
  /\ currentConfig' = NoConfig
  /\ currentSession' = NoSession
  /\ game' = NoGame
  /\ UNCHANGED <<round, table>>

NextQuiz ==
  \/ HandleStartPractice
  \/ SetUserGuess
  \/ CheckAnswer
  \/ ToggleShowAnswer
  \/ NextQuestion
  \/ HandleBackToConfiguration
  \/ HandleRestart

SpecQuiz == Init /\ [][NextQuiz]_vars

\* ------------------------------------------------------------ the claims

Q == <<"?">>

\* 0 <= n <= 999,999,999,999,999
InDomain(n) == Ge(n, I(0)) /\ Le(n, MaxNumber)

\* japanese holds convertToJapanese(currentNumber)
Converted == pc \in {"shown", "answered"}

\* currentNumber was returned by generateRandomNumber for the draw rawNumber
Sampled == source = "sampler" /\ pc # "idle"

\* the granularity the band table gives the band that contains n >= 0:
\* 1 below 1000, then 100, 500, 1000, 10^4, 5*10^4, 10^5, 10^6, 5*10^6, 10^7,
\* and 10^8 from 10^12 on
BandStep(n) ==
  StepOfDigits(CHOOSE k \in 0..16 : Lt(n, P10(k + 1)) /\ (k = 0 \/ Ge(n, P10(k))))

\* n mod g, for a granularity g (each divides 10^8)
ModStep(n, g) == n.lo % g

\* the number of places where pat occurs in s
Occurrences(s, pat) == Cardinality({ i \in 1..Len(s) : MatchAt(s, pat, i) })

\* C1: for every v in [0, 999,999,999,999,999] none of the kanji, hiragana and
\* romaji of convertToJapanese(v) is the unknown marker "?": the magnitude
\* bands leave no gap.
C1_Totality ==
  (Converted /\ InDomain(currentNumber)) =>
    /\ japanese.kanji # Q
    /\ japanese.hiragana # Q
    /\ japanese.romaji # Q

\* 999,999 (the last number of the hundred-thousands band) has been converted
C1_Witness ==
  pc = "shown" /\ currentNumber = I(999999) /\ japanese.kanji # Q

\* C2: for every v that is negative or >= 10^15, convertToJapanese(v) is the
\* sentinel: kanji, hiragana and romaji are all exactly "?".
C2_OutOfRangeSentinel ==
  (Converted /\ ~InDomain(currentNumber)) =>
    /\ japanese.kanji = Q
    /\ japanese.hiragana = Q
    /\ japanese.romaji = Q

\* 10^15 has been converted, to the sentinel
C2_Witness ==
  pc = "shown" /\ currentNumber = P10(15) /\ japanese.romaji = Q

\* C3: whatever the draw, the number generateRandomNumber returns after
\* roundToRealistic lies in [0, 999,999,999,999,999].
C3_SamplerDomain == Sampled => InDomain(currentNumber)

\* C4: every number r that generateRandomNumber returns converts to a triple
\* with number = r and no field equal to "?".
C4_SamplerConvertible ==
  (Sampled /\ Converted) =>
    /\ japanese.number = currentNumber
    /\ japanese.kanji # Q
    /\ japanese.hiragana # Q
    /\ japanese.romaji # Q

\* C5: for every v in [0, 999,999,999,999,999] with t = convertToJapanese(v),
\* isAnswerCorrect accepts each of t.kanji, t.hiragana and t.romaji.
C5_SelfConsistency ==
  (/\ pc = "answered"
   /\ InDomain(currentNumber)
   /\ userInput \in {japanese.kanji, japanese.hiragana, japanese.romaji})
  => isCorrect

\* the kanji of a number above 10^12 has been given as the answer and accepted
C5_Witness ==
  /\ pc = "answered"
  /\ Gt(currentNumber, P10(12)) /\ InDomain(currentNumber)
  /\ userInput = japanese.kanji
  /\ isCorrect

\* the exponent of the largest of 10^4, 10^8, 10^12 that is <= v (v >= 10^4)
UnitExponent(v) == IF Ge(v, P10(12)) THEN 12 ELSE IF Ge(v, P10(8)) THEN 8 ELSE 4

UnitGlyph(k) == IF k = 12 THEN <<"kChou">> ELSE IF k = 8 THEN <<"kOku">> ELSE <<"kMan">>

\* C6: for every v in [10^4, 10^15), with U the largest of 10^4, 10^8, 10^12
\* that is <= v, the kanji of v is the kanji of v div U, then U's glyph, then
\* the kanji of v mod U when v mod U > 0.
C6_Base10000Grouping ==
  (Converted /\ InDomain(currentNumber) /\ Ge(currentNumber, P10(4))) =>
    LET k == UnitExponent(currentNumber)
        remainder == Mod(currentNumber, k)
    IN japanese.kanji =
         convertToJapanese(FloorDiv(currentNumber, k)).kanji \o UnitGlyph(k)
         \o (IF remainder = I(0) THEN <<>> ELSE convertToJapanese(remainder).kanji)

\* the sound-changed forms: kanji, hiragana, romaji
SoundChanges ==
  { Form(<<"k3", "k100">>, <<"hSa", "hN", "hBi", "hya", "hKu">>,
         <<"s", "a", "n", "b", "y", "a", "k", "u">>),
    Form(<<"k6", "k100">>, <<"hRo", "htsu", "hPi", "hya", "hKu">>,
         <<"r", "o", "p", "p", "y", "a", "k", "u">>),
    Form(<<"k8", "k100">>, <<"hHa", "htsu", "hPi", "hya", "hKu">>,
         <<"h", "a", "p", "p", "y", "a", "k", "u">>),
    Form(<<"k3", "k1000">>, <<"hSa", "hN", "hZe", "hN">>,
         <<"s", "a", "n", "z", "e", "n">>),
    Form(<<"k8", "k1000">>, <<"hHa", "htsu", "hSe", "hN">>,
         <<"h", "a", "s", "s", "e", "n">>) }

\* the naive forms, in hiragana
NaiveHiragana ==
  { <<"hSa", "hN", "hHi", "hya", "hKu">>, <<"hRo", "hKu", "hHi", "hya", "hKu">>,
    <<"hHa", "hChi", "hHi", "hya", "hKu">>, <<"hSa", "hN", "hSe", "hN">>,
    <<"hHa", "hChi", "hSe", "hN">> }

\* C7: for every v in the range, each place where the kanji has 3, 6 or 8
\* before the hundred glyph, or 3 or 8 before the thousand glyph, is read with
\* the sound-changed form in hiragana and romaji, and no naive form occurs in
\* the hiragana.
C7_SoundChanges ==
  (Converted /\ InDomain(currentNumber)) =>
    /\ \A f \in SoundChanges :
         /\ Occurrences(japanese.hiragana, f.hiragana) = Occurrences(japanese.kanji, f.kanji)
         /\ Occurrences(japanese.romaji, f.romaji) = Occurrences(japanese.kanji, f.kanji)
    /\ \A naive \in NaiveHiragana : ~Includes(japanese.hiragana, naive)

\* C8: isAnswerCorrect accepts both readings of 4 (yon, shi) and of 7 (nana,
\* shichi), in hiragana and in romaji.
C8_BothReadingsAccepted ==
  /\ (/\ pc = "answered" /\ currentNumber = I(4)
      /\ userInput \in { <<"hYo", "hN">>, <<"y", "o", "n">>,
                         <<"hShi">>, <<"s", "h", "i">> })
     => isCorrect
  /\ (/\ pc = "answered" /\ currentNumber = I(7)
      /\ userInput \in { <<"hNa", "hNa">>, <<"n", "a", "n", "a">>,
                         <<"hShi", "hChi">>, <<"s", "h", "i", "c", "h", "i">> })
     => isCorrect

\* C9: for a draw v in [0, 10^15) whose band has granularity g, r =
\* roundToRealistic(v) is a multiple of g with |r - v| <= g/2, an exact half
\* goes up, and v < 1000 is returned unchanged.
C9_RoundsToNearestStep ==
  Sampled =>
    LET v == rawNumber
        r == currentNumber
        g == BandStep(v)
        half == g \div 2
    IN /\ ModStep(r, g) = 0
       /\ Le(Minus(r, v), I(half))
       /\ Le(Minus(v, r), I(half))
       /\ (g > 1 /\ ModStep(v, g) = half) => r = Plus(v, half)
       /\ Lt(v, P10(3)) => r = v

\* an exact half, 1050, has been rounded (to 1100)
C9_Witness ==
  Sampled /\ rawNumber = I(1050) /\ currentNumber = I(1100)

\* C10: every number r the sampler returns is a multiple of the granularity
\* of the band that contains r itself, also when rounding carried the draw up
\* into the next band.
C10_StepOfOutputBand ==
  Sampled => ModStep(currentNumber, BandStep(currentNumber)) = 0

\* a draw below 10^5 has been carried up to 10^5, into the band rounded to 1000
C10_Witness ==
  Sampled /\ Lt(rawNumber, P10(5)) /\ currentNumber = P10(5)

\* C11: for distinct in-range numbers v and w, isAnswerCorrect rejects the
\* canonical kanji, hiragana and romaji of w as an answer to v (the romaji
\* variants of v never reach another number's canonical answer).
C11_RejectsOtherNumbers ==
  (pc = "answered" /\ InDomain(currentNumber) /\ isCorrect) =>
    \A w \in Rivals \ {currentNumber} : userInput \notin RivalForms[w]

\* "ichi", the romaji of 1, has been given as the answer to 21 and rejected
C11_Witness ==
  /\ pc = "answered"
  /\ currentNumber = I(21)
  /\ userInput = <<"i", "c", "h", "i">>
  /\ ~isCorrect

\* C12: for every in-range v with canonical romaji c, isAnswerCorrect accepts
\* c with every "uu" collapsed to "u", with every "ju" replaced by "jyu", with
\* every "kyu" replaced by "ku", and the collapse combined with one of the two
\* replacements (juu ~ jyuu ~ ju ~ jyu, kyuu ~ kyu ~ ku).
C12_SpellingVariantsAccepted ==
  (pc = "answered" /\ InDomain(currentNumber)
     /\ userInput \in SpellingVariants(japanese.romaji)) => isCorrect

\* 21 has been answered "nijyuichi", which is neither its canonical romaji
\* nor a single replacement of it, and the answer was accepted
C12_Witness ==
  /\ pc = "answered"
  /\ currentNumber = I(21)
  /\ userInput = <<"n", "i", "j", "y", "u", "i", "c", "h", "i">>
  /\ userInput # japanese.romaji
  /\ isCorrect

normalize(s) == trim(toLowerCase(s))

\* C13: isRomajiMatch(a, b) = isRomajiMatch(trim(lower(a)), trim(lower(b)))
\* for all strings a and b: letter case and white space around either
\* argument do not change the result.
C13_RomajiMatchNormalizesBoth ==
  call.fn = "isRomajiMatch" =>
    call.result = isRomajiMatch(normalize(call.args[1]), normalize(call.args[2]))

\* " juu" has matched "\tJYUU \n": neither argument is in normal form
C13_Witness ==
  /\ call.fn = "isRomajiMatch"
  /\ call.args = << <<" ", "j", "u", "u">>, <<"\t", "J", "Y", "U", "U", " ", "\n">> >>
  /\ call.result = TRUE

\* the triple t with each field trimmed and lower-cased
NormalizedTriple(t) ==
  JN(t.number, normalize(t.kanji), normalize(t.hiragana), normalize(t.romaji))

\* C14: isAnswerCorrect(x, t) is the result for the triple whose kanji,
\* hiragana and romaji are trim(lower(.)) of the fields of t.
C14_NormalizesTripleFields ==
  call.fn = "isAnswerCorrect" =>
    call.result = isAnswerCorrect(call.args[1], NormalizedTriple(call.args[2]))

\* the values with a direct table entry: 0..20, the decades 30..90, and 100
TabulatedValues == (0..20) \cup { 10 * d : d \in 3..10 }

Tabulated(n) == n.hi = 0 /\ n.lo \in TabulatedValues

\* C15: for every value with a direct table entry (0..20, 30, 40, ..., 90,
\* 100) convertToJapanese returns that entry, number and all three fields:
\* 0 is rei, 10 is juu, 100 is hyaku.
C15_TableEntriesVerbatim ==
  /\ DOMAIN basicNumbers = TabulatedValues
  /\ (Converted /\ Tabulated(currentNumber)) =>
       /\ japanese = basicNumbers[currentNumber.lo]
       /\ japanese.number = currentNumber
       /\ currentNumber = I(0) =>
            japanese = JN(I(0), <<"k0">>, <<"hRe", "hI">>, <<"r", "e", "i">>)
       /\ currentNumber = I(10) =>
            japanese = JN(I(10), <<"k10">>, <<"hJi", "hyu", "hU">>, <<"j", "u", "u">>)
       /\ currentNumber = I(100) =>
            japanese = JN(I(100), <<"k100">>, <<"hHi", "hya", "hKu">>,
                          <<"h", "y", "a", "k", "u">>)

\* 0, whose entry a truthiness test on the number would miss, has been converted
C15_Witness ==
  /\ Converted
  /\ currentNumber = I(0)
  /\ japanese.romaji = <<"r", "e", "i">>

\* the leading form of a non-tabulated v in 21..9999: the decade entry, the
\* hundreds form or the thousands form
LeadingForm(v) ==
  IF v < 100 THEN basicNumbers[(v \div 10) * 10]
  ELSE IF v < 1000 THEN hundredsForm[v \div 100]
  ELSE thousandsForm[v \div 1000]

\* the remainder of v after its leading form
Remainder(v) == IF v < 100 THEN v % 10 ELSE IF v < 1000 THEN v % 100 ELSE v % 1000

StrictlyAscending(s) == \A i \in 1..(Len(s) - 1) : s[i] < s[i + 1]

Elements(s) == { s[i] : i \in 1..Len(s) }

\* C18: getSupportedNumbers returns, in ascending order and without
\* duplicates, exactly the directly tabulated values (0..20, the decades
\* 30..90, and 100) and nothing else.
C18_ExactlyTabulated ==
  call.fn = "getSupportedNumbers" =>
    /\ StrictlyAscending(call.result)
    /\ Elements(call.result) = TabulatedValues

\* C18 as amended: getSupportedNumbers returns, in ascending order and
\* without duplicates, exactly the tabulated values and the compound numbers
\* 21..99, that is every integer from 0 to 100.
C18_ZeroToHundred ==
  call.fn = "getSupportedNumbers" =>
    /\ StrictlyAscending(call.result)
    /\ Elements(call.result) = 0..100
    /\ Elements(call.result) = TabulatedValues \cup (21..99)

\* getSupportedNumbers has returned a list holding the compound number 21
C18_Witness ==
  /\ call.fn = "getSupportedNumbers"
  /\ Len(call.result) = 101
  /\ call.result[22] = 21

\* C20: for every configured range and every raw draw in [rangeMin, rangeMax]
\* the number the pages generate (the draw, then roundToRealistic) lies in
\* [rangeMin, rangeMax]: the level 1000-9999 never yields 10000.
C20_GeneratedInRange ==
  call.fn = "generateNumber" =>
    /\ Ge(call.result, call.args[1])
    /\ Le(call.result, call.args[2])

\* C19: for every sequence of check-answer, show/hide-answer and
\* next-question events, the GameSession handed to onComplete has
\* correctAnswers <= totalQuestions.
C19_ScoreAtMostTotal ==
  gameState = "results" =>
    currentSession.correctAnswers <= currentSession.totalQuestions

\* one rule of one substitution family applied to s: a long vowel collapsed
\* or a short one promoted, a palatalized pair in either direction, the
\* nasal doubled or collapsed
SingleRule(s) == longVowelVariants(s) \cup ySoundVariants({s}) \cup nVariants({s})

\* C21: the set S returned by generateRomajiVariants(c) contains c and is
\* closed under the substitution families: a single rule applied to a member
\* of S yields a member of S.
C21_VariantSetClosed ==
  call.fn = "generateRomajiVariants" =>
    /\ call.args[1] \in call.result
    /\ \A s \in call.result : SingleRule(s) \subseteq call.result

\* the exponent of the unit scale U of the band of v: the converter splits
\* v as q * U + r
UnitScale(v) ==
  IF Lt(v, P10(2)) THEN 1 ELSE IF Lt(v, P10(3)) THEN 2
  ELSE IF Lt(v, P10(4)) THEN 3 ELSE IF Lt(v, P10(6)) THEN 4
  ELSE IF Lt(v, P10(8)) THEN 6 ELSE IF Lt(v, P10(12)) THEN 8 ELSE 12

\* C22: for every v in [21, 999,999,999,999,999] split as v = q * U + r
\* with 0 < r < U, each field of convertToJapanese(v) is the field of
\* convertToJapanese(q * U) followed by that of convertToJapanese(r): the
\* forms of 1,000,001 begin with the forms of 1,000,000.
C22_AdditiveCompositionality ==
  (Converted /\ Ge(currentNumber, I(21)) /\ InDomain(currentNumber)
     /\ Mod(currentNumber, UnitScale(currentNumber)) # I(0)) =>
    LET r == Mod(currentNumber, UnitScale(currentNumber))
        whole == convertToJapanese(Minus(currentNumber, r))
        rest == convertToJapanese(r)
    IN /\ japanese.kanji = whole.kanji \o rest.kanji
       /\ japanese.hiragana = whole.hiragana \o rest.hiragana
       /\ japanese.romaji = whole.romaji \o rest.romaji

\* C23: each displayed question is scored at most once: whatever the order
\* of Enter presses, Check Answer clicks and eye toggles, checkAnswer
\* appends at most one record per displayed question, so
\* answers.length <= currentQuestionIndex + 1.
C23_ScoredAtMostOnce ==
  gameState = "playing" =>
    Len(game.answers) <= game.currentQuestionIndex + 1

\* C24: for every integer input, in range or not, the triple returned by
\* convertToJapanese has either all three fields equal to "?" or no field
\* containing "?": no helper concatenates a failed sub-conversion into a
\* partial result.
C24_AllOrNothingSentinel ==
  Converted =>
    \/ japanese.kanji = Q /\ japanese.hiragana = Q /\ japanese.romaji = Q
    \/ ~Includes(japanese.kanji \o japanese.hiragana \o japanese.romaji, Q)

\* 19,999 has been converted by convertTenThousands, which appends the
\* conversion of 9,999 without testing it, and no field holds a "?"
C24_Witness ==
  /\ Converted
  /\ currentNumber = I(19999)
  /\ japanese.kanji = <<"k1", "kMan">> \o convertToJapanese(I(9999)).kanji
  /\ ~Includes(japanese.kanji \o japanese.hiragana \o japanese.romaji, Q)

\* C25: every call of convertToJapanese returns a triple owned by the caller
\* alone: after callers have overwritten fields of the triples they received,
\* the table objects are unchanged and a later convertToJapanese(v) returns
\* the canonical fields.
C25_NoSharedInstance ==
  /\ table = basicNumbersInitializer
  /\ (pc = "ready" /\ Tabulated(currentNumber)) =>
       convertToJapanese(currentNumber) = basicNumbersInitializer[currentNumber.lo]

\* the numbers v is most easily confused with: its neighbours, v without
\* its remainder, its remainders and its leading multipliers
Related(v) ==
  { Plus(v, 1), Plus(v, -1), Plus(v, 10), Plus(v, 100),
    Minus(v, Mod(v, UnitScale(v))), Mod(v, UnitScale(v)),
    Mod(v, 4), Mod(v, 6), Mod(v, 8), Mod(v, 12),
    FloorDiv(v, 1), FloorDiv(v, 2), FloorDiv(v, 4), FloorDiv(v, 6),
    FloorDiv(v, 8), FloorDiv(v, 12) }

\* C26: for distinct v and w in [0, 999,999,999,999,999] the kanji of
\* convertToJapanese(v) and convertToJapanese(w) differ, and so do the
\* hiragana and the romaji: a canonical answer identifies one number.
C26_Injectivity ==
  (pc = "shown" /\ InDomain(currentNumber)) =>
    \A w \in (Rivals \cup Related(currentNumber)) \ {currentNumber} :
      InDomain(w) =>
        LET other == convertToJapanese(w)
        IN /\ japanese.kanji # other.kanji
           /\ japanese.hiragana # other.hiragana
           /\ japanese.romaji # other.romaji

\* 1,000,001 has been converted: its forms differ from those of 1,000,000,
\* of 1 and of 1,000,002
C26_Witness ==
  /\ pc = "shown"
  /\ currentNumber = I(1000001)
  /\ japanese.kanji # convertToJapanese(P10(6)).kanji
  /\ japanese.kanji = <<"k1", "k100", "kMan", "k1">>

\* C27: isRomajiMatch is symmetric: isRomajiMatch(a, b) = isRomajiMatch(b, a)
\* for all strings a and b; a spelling accepted as a variant of a canonical
\* string accepts that string as its own variant.
C27_RomajiMatchSymmetric ==
  call.fn = "isRomajiMatch" =>
    call.result = isRomajiMatch(call.args[2], call.args[1])

\* C28: roundToRealistic is idempotent on [0, 10^15):
\* roundToRealistic(roundToRealistic(v)) = roundToRealistic(v), also when v
\* is carried up across a band boundary into a band with a coarser step.
C28_RoundingIdempotent ==
  Sampled => roundToRealistic(currentNumber) = currentNumber

\* the draw 99,750 has been carried up to 100,000, into the band of step
\* 1,000, and is rounded to itself there
C28_Witness ==
  /\ Sampled
  /\ rawNumber = I(99750)
  /\ currentNumber = P10(5)
  /\ roundToRealistic(currentNumber) = P10(5)

\* every call under convertToJapanese(num), nested ones included, has an
\* argument a with 0 <= a < the number whose conversion makes it
RECURSIVE Descends(_)
Descends(num) ==
  \A a \in recursiveCalls(num) : Ge(a, I(0)) /\ Lt(a, num) /\ Descends(a)

\* C29: every recursive call made while evaluating convertToJapanese(v), v in
\* [0, 999,999,999,999,999], on the leading multiplier and on the remainder,
\* has an argument a with 0 <= a < v: every conversion terminates.
C29_CallsDescend ==
  (Converted /\ InDomain(currentNumber)) => Descends(currentNumber)

\* 999,999,999,999,999 has been converted, calling the conversion of its
\* multiplier 999 and of its remainder 999,999,999,999
C29_Witness ==
  /\ Converted
  /\ currentNumber = MaxNumber
  /\ recursiveCalls(currentNumber) = { I(999), Mk(9999, 99999999) }

\* C30: for every v in [0, 999,999,999,999,999] the nesting depth of the
\* convertToJapanese invocations during convertToJapanese(v), the outermost
\* counted as 1, is at most 5.
C30_DepthAtMostFive ==
  (Converted /\ InDomain(currentNumber)) => callDepth(currentNumber) <= 5

\* C30 as amended: the nesting depth is at most 7.
C30_DepthAtMostSeven ==
  (Converted /\ InDomain(currentNumber)) => callDepth(currentNumber) <= 7

\* 999,999,999,999,999 has been converted, at depth 7
C30_Witness ==
  /\ Converted
  /\ currentNumber = MaxNumber
  /\ callDepth(currentNumber) = 7

====
